---- MODULE Spec2Model ----
(***************************************************************************)
(* Model of the XRP batch payout: the payout script (src/unnamed/part_000) *)
(* and the ledger functions of src/src/lib/xrp.ts (connectToLedger,        *)
(* generateWallet, submitPayment, checkPayment).                           *)
(*                                                                         *)
(* reliableBatchPayment is imported by payout from lib/xrp but its body is *)
(* not part of the sources; the batch loop is modelled from section 4.3 of *)
(* the specification (actions AfterSubmit, RecordOutcome, BatchReturn).    *)
(***************************************************************************)
EXTENDS Integers, Sequences, FiniteSets, TLC

\* ---- bounds ----
MaxRecipients == 3
MaxRetryLimit == 3
MaxPending == 3
\* cap on the polls of one checkPayment invocation
MaxPolls == 5
\* largest numRetries argument of a direct checkPayment call
MaxNumRetries == 3

\* ---- values ----
Succeeded == "Succeeded"
Pending == "Pending"
Failed == "Failed"
Unknown == "Unknown"
TransactionStatus == {Succeeded, Pending, Failed, Unknown}

NoAddress == "undefined"
XAddress == "xaddress"
NoHash == "nohash"
Hash == "hash"

StoppedError == "XRP payout stopped."
FailedError == "Transaction failed."
RetryLimitError == "Retry limit reached. Transaction still pending."
SendError == "send failed"
ConnectionError == "getBalance failed"
PromptError == "invalid sender input"
CsvError == "invalid input csv"
WalletError == "Failed to generate wallet from secret."
NotIterableError == "TypeError: object is not iterable"

\* A recipient row of the input CSV: the only field the control flow depends
\* on is whether address + tag can be encoded as an X-address.
TxInput == [encodable : BOOLEAN]

RECURSIVE SeqsUpTo(_, _)
SeqsUpTo(S, n) ==
  IF n = 0 THEN {<<>>}
  ELSE LET shorter == SeqsUpTo(S, n - 1)
       IN shorter \cup {Append(s, x) : s \in {t \in shorter : Len(t) = n - 1}, x \in S}

Rows == 1..MaxRecipients

VARIABLES
  retryLimit,    \* config.retryLimit
  pc,            \* position of payout
  errorLog,      \* errors passed to log.error by payout
  confirmed,     \* senderInput.confirmed: "unknown" | "yes" | "no"
  inputRead,     \* the input CSV read stream was created
  walletMade,    \* generateWallet returned
  connected,     \* connectToLedger returned (getBalance answered)
  outputOpen,    \* the output CSV write stream was created
  txInputs,      \* the parsed recipient rows
  idx,           \* the batch loop's current row (1-based)
  bpc,           \* position of the batch loop
  ret,           \* what the last submitPayment call produced
  ledgerTx,      \* the ledger's answers for the transaction being checked
  cp,            \* the running checkPayment invocation
  submitCalls,   \* row -> number of submitPayment calls
  sendCalls,     \* row -> number of xrpClient.send calls
  sentDest,      \* row -> destination argument of the last send
  sendResult,    \* row -> "none" | "ok" | "fail"
  pollCalls,     \* row -> number of xrpClient.getPaymentStatus calls
  output         \* outcome records written to the output stream

vars == <<retryLimit, pc, errorLog, confirmed, inputRead, walletMade, connected,
          outputOpen, txInputs, idx, bpc, ret, ledgerTx, cp, submitCalls,
          sendCalls, sentDest, sendResult, pollCalls, output>>

payoutVars == <<pc, errorLog, confirmed, inputRead, walletMade, connected, outputOpen, txInputs>>
ledgerVars == <<submitCalls, sendCalls, sentDest, sendResult, pollCalls>>

NoRet == [threw |-> FALSE, txHash |-> NoHash, error |-> ""]
NoTx == [pend |-> 0, final |-> "None"]
NoFrame == [active |-> FALSE, txHash |-> NoHash, top |-> 0, numRetries |-> 0,
            index |-> 0, polls |-> 0, last |-> "None", result |-> "none"]

N == Len(txInputs)

Init ==
  /\ retryLimit \in 0..MaxRetryLimit
  /\ pc = "prompt"
  /\ errorLog = <<>>
  /\ confirmed = "unknown"
  /\ inputRead = FALSE
  /\ walletMade = FALSE
  /\ connected = FALSE
  /\ outputOpen = FALSE
  /\ txInputs = <<>>
  /\ idx = 0
  /\ bpc = "idle"
  /\ ret = NoRet
  /\ ledgerTx = NoTx
  /\ cp = NoFrame
  /\ submitCalls = [r \in Rows |-> 0]
  /\ sendCalls = [r \in Rows |-> 0]
  /\ sentDest = [r \in Rows |-> "none"]
  /\ sendResult = [r \in Rows |-> "none"]
  /\ pollCalls = [r \in Rows |-> 0]
  /\ output = <<>>

\* ---- payout (src/unnamed/part_000) ----

\* Variant: the error leaves payout instead of being logged.
Catch_Rethrow(err) ==
  /\ pc' = "propagated"
  /\ errorLog' = errorLog

\* catch (err) { log.error(err) }
Catch(err) ==
  /\ pc' = "done"
  /\ errorLog' = Append(errorLog, err)

\* Variant: the answer to the confirmation question is not looked at.
Prompt_NoConfirmCheck ==
  /\ pc = "prompt"
  /\ \E valid \in BOOLEAN, answer \in BOOLEAN :
       IF ~valid
       THEN /\ Catch(PromptError)
            /\ UNCHANGED confirmed
       ELSE /\ confirmed' = IF answer THEN "yes" ELSE "no"
            /\ pc' = "parseCsv"
            /\ UNCHANGED errorLog
  /\ UNCHANGED <<retryLimit, inputRead, walletMade, connected, outputOpen,
                 txInputs, idx, bpc, ret, ledgerTx, cp, output>>
  /\ UNCHANGED ledgerVars

\* parseFromPromptToObject, then the confirmation check.
Prompt ==
  /\ pc = "prompt"
  /\ \E valid \in BOOLEAN, answer \in BOOLEAN :
       IF ~valid
       THEN /\ Catch(PromptError)
            /\ UNCHANGED confirmed
       ELSE /\ confirmed' = IF answer THEN "yes" ELSE "no"
            /\ IF ~answer THEN Catch(StoppedError)
               ELSE /\ pc' = "parseCsv"
                    /\ UNCHANGED errorLog
  /\ UNCHANGED <<retryLimit, inputRead, walletMade, connected, outputOpen,
                 txInputs, idx, bpc, ret, ledgerTx, cp, output>>
  /\ UNCHANGED ledgerVars

\* fs.createReadStream + parseFromCsvToArray
ParseCsv ==
  /\ pc = "parseCsv"
  /\ inputRead' = TRUE
  /\ \E valid \in BOOLEAN :
       IF ~valid
       THEN /\ Catch(CsvError)
            /\ UNCHANGED txInputs
       ELSE /\ txInputs' \in SeqsUpTo(TxInput, MaxRecipients)
            /\ pc' = "wallet"
            /\ UNCHANGED errorLog
  /\ UNCHANGED <<retryLimit, confirmed, walletMade, connected, outputOpen,
                 idx, bpc, ret, ledgerTx, cp, output>>
  /\ UNCHANGED ledgerVars

\* generateWallet: throws when the wallet or its addresses are not valid.
GenerateWallet ==
  /\ pc = "wallet"
  /\ \E valid \in BOOLEAN :
       IF ~valid
       THEN /\ Catch(WalletError)
            /\ UNCHANGED walletMade
       ELSE /\ walletMade' = TRUE
            /\ pc' = "connect"
            /\ UNCHANGED errorLog
  /\ UNCHANGED <<retryLimit, confirmed, inputRead, connected, outputOpen, txInputs,
                 idx, bpc, ret, ledgerTx, cp, output>>
  /\ UNCHANGED ledgerVars

\* Variant: the balance query is not awaited, so its rejection is not seen.
ConnectToLedger_Unchecked ==
  /\ pc = "connect"
  /\ \E balanceOk \in BOOLEAN :
       /\ connected' = balanceOk
       /\ pc' = "openOutput"
       /\ UNCHANGED errorLog
  /\ UNCHANGED <<retryLimit, confirmed, inputRead, walletMade, outputOpen, txInputs,
                 idx, bpc, ret, ledgerTx, cp, output>>
  /\ UNCHANGED ledgerVars

\* connectToLedger: the getBalance call validates the connection and rejects
\* when the ledger cannot be reached.  payout then destructures the result as
\* a tuple ([xrpNetworkClient], as the test helper does with
\* [xrpNetworkClient, balance]) while xrp.ts returns the bare client: with the
\* bare client the destructuring raises a TypeError, with a tuple it yields
\* the client.  Both outcomes are kept.
ConnectToLedger ==
  /\ pc = "connect"
  /\ \E balanceOk \in BOOLEAN, iterable \in BOOLEAN :
       IF ~balanceOk
       THEN /\ Catch(ConnectionError)
            /\ UNCHANGED connected
       ELSE /\ connected' = TRUE
            /\ IF iterable
               THEN pc' = "openOutput" /\ UNCHANGED errorLog
               ELSE Catch(NotIterableError)
  /\ UNCHANGED <<retryLimit, confirmed, inputRead, walletMade, outputOpen, txInputs,
                 idx, bpc, ret, ledgerTx, cp, output>>
  /\ UNCHANGED ledgerVars

\* fs.createWriteStream + the call of reliableBatchPayment(..., retryLimit)
StartBatch ==
  /\ pc = "openOutput"
  /\ outputOpen' = TRUE
  /\ pc' = "batch"
  /\ idx' = 1
  /\ bpc' = "submit"
  /\ UNCHANGED <<retryLimit, confirmed, errorLog, inputRead, walletMade, connected,
                 txInputs, ret, ledgerTx, cp, output>>
  /\ UNCHANGED ledgerVars

\* ---- submitPayment (src/src/lib/xrp.ts) ----

\* XrpUtils.encodeXAddress(address, tag) as string
encodeXAddress(receiverAccount) ==
  IF receiverAccount.encodable THEN XAddress ELSE NoAddress

\* Variant: the rejection of send is swallowed and submitPayment returns.
submitPaymentResult_Swallow(sendOk) ==
  IF sendOk THEN [threw |-> FALSE, txHash |-> Hash, error |-> ""]
  ELSE [threw |-> FALSE, txHash |-> NoHash, error |-> ""]

\* What submitPayment hands back for the outcome of its send call: the
\* rejection of send propagates, otherwise the hash is returned.
submitPaymentResult(sendOk) ==
  IF sendOk THEN [threw |-> FALSE, txHash |-> Hash, error |-> ""]
  ELSE [threw |-> TRUE, txHash |-> NoHash, error |-> SendError]

\* Variant: a rejected send is tried a second time.
sendAttempts_Retry(sendOk) == IF sendOk THEN 1 ELSE 2

\* Number of xrpClient.send invocations in one submitPayment call.
sendAttempts(sendOk) == 1

\* One call of submitPayment for row idx.  The destination is encoded and
\* passed to send without a check; send answers with a hash or rejects.  When
\* send accepts the transaction the ledger's later answers for it are fixed
\* here (pend Pending answers, then final; final = Pending: never resolves).
SubmitPayment ==
  /\ pc = "batch"
  /\ bpc = "submit"
  /\ idx <= N
  /\ \E sendOk \in BOOLEAN :
       LET dest == encodeXAddress(txInputs[idx])
       IN /\ submitCalls' = [submitCalls EXCEPT ![idx] = @ + 1]
          /\ sendCalls' = [sendCalls EXCEPT ![idx] = @ + sendAttempts(sendOk)]
          /\ sentDest' = [sentDest EXCEPT ![idx] = dest]
          /\ sendResult' = [sendResult EXCEPT ![idx] = IF sendOk THEN "ok" ELSE "fail"]
          /\ ret' = submitPaymentResult(sendOk)
          /\ IF sendOk
             THEN \E p \in 0..MaxPending, f \in TransactionStatus :
                    /\ (f = Pending => p = 0)
                    /\ ledgerTx' = [pend |-> p, final |-> f]
             ELSE ledgerTx' = NoTx
  /\ bpc' = "submitted"
  /\ UNCHANGED <<retryLimit, idx, cp, pollCalls, output>>
  /\ UNCHANGED payoutVars

\* ---- checkPayment (src/src/lib/xrp.ts) ----

\* xrpClient.getPaymentStatus(txHash) for the n-th poll of the transaction
getPaymentStatus(n) ==
  IF n <= ledgerTx.pend THEN Pending ELSE ledgerTx.final

\* Variant: index > numRetries
retryLimitReached_Strict(numRetries, index) == index > numRetries

\* index >= numRetries
retryLimitReached(numRetries, index) == index >= numRetries

\* Variant: only Failed is treated as a failure
isFailure_FailedOnly(txStatus) == txStatus = Failed

\* txStatus === Failed || txStatus === Unknown
isFailure(txStatus) == txStatus = Failed \/ txStatus = Unknown

\* Variant: the retry-limit branch throws the same error as a failure.
checkPaymentStep_OneError(f, txStatus) ==
  LET polled == [f EXCEPT !.polls = @ + 1, !.last = txStatus]
  IN IF txStatus = Succeeded THEN [polled EXCEPT !.result = "returned"]
     ELSE IF txStatus = Pending
       THEN IF retryLimitReached(f.numRetries, f.index)
            THEN [polled EXCEPT !.result = "failed"]
            ELSE [polled EXCEPT !.numRetries = f.index + 1, !.index = retryLimit]
     ELSE IF isFailure(txStatus) THEN [polled EXCEPT !.result = "failed"]
     ELSE [polled EXCEPT !.result = "returned"]

\* Variant: at the retry limit the function logs and returns instead of
\* throwing.
checkPaymentStep_SwallowTimeout(f, txStatus) ==
  LET polled == [f EXCEPT !.polls = @ + 1, !.last = txStatus]
  IN IF txStatus = Succeeded THEN [polled EXCEPT !.result = "returned"]
     ELSE IF txStatus = Pending
       THEN IF retryLimitReached(f.numRetries, f.index)
            THEN [polled EXCEPT !.result = "returned"]
            ELSE [polled EXCEPT !.numRetries = f.index + 1, !.index = retryLimit]
     ELSE IF isFailure(txStatus) THEN [polled EXCEPT !.result = "failed"]
     ELSE [polled EXCEPT !.result = "returned"]

\* The frame after one poll answered txStatus.  A Pending answer below the
\* limit re-enters checkPayment(xrpClient, txHash, newIndex, retryLimit): the
\* third parameter is numRetries and the fourth is index.
checkPaymentStep(f, txStatus) ==
  LET polled == [f EXCEPT !.polls = @ + 1, !.last = txStatus]
  IN IF txStatus = Succeeded THEN [polled EXCEPT !.result = "returned"]
     ELSE IF txStatus = Pending
       THEN IF retryLimitReached(f.numRetries, f.index)
            THEN [polled EXCEPT !.result = "timeout"]
            ELSE [polled EXCEPT !.numRetries = f.index + 1, !.index = retryLimit]
     ELSE IF isFailure(txStatus) THEN [polled EXCEPT !.result = "failed"]
     ELSE [polled EXCEPT !.result = "returned"]

\* One poll of the running checkPayment invocation.
CheckPayment ==
  /\ pc = "batch"
  /\ bpc = "check"
  /\ cp.active
  /\ cp.result = "running"
  /\ cp.polls < MaxPolls
  /\ cp' = checkPaymentStep(cp, getPaymentStatus(cp.polls + 1))
  /\ pollCalls' = [pollCalls EXCEPT ![idx] = @ + 1]
  /\ UNCHANGED <<retryLimit, idx, bpc, ret, ledgerTx, output,
                 submitCalls, sendCalls, sentDest, sendResult>>
  /\ UNCHANGED payoutVars

\* The error a finished invocation threw ("" when it returned).
thrownError(result) ==
  IF result = "timeout" THEN RetryLimitError
  ELSE IF result = "failed" THEN FailedError
  ELSE ""

\* ---- reliableBatchPayment (specification, section 4.3) ----

\* checkPayment(xrpClient, txHash, numRetries): index keeps its default 0.
callCheckPayment(txHash, numRetries) ==
  [active |-> TRUE, txHash |-> txHash, top |-> numRetries,
   numRetries |-> numRetries, index |-> 0,
   polls |-> 0, last |-> "None", result |-> "running"]

\* The outcome record for the end of a checkPayment invocation.
outcomeOf(result) ==
  IF result = "returned" THEN "Confirmed"
  ELSE IF result = "timeout" THEN "TimedOut"
  ELSE "Failed"

\* Variant: a submission error moves on to the next row without a record.
AfterSubmit_Drop ==
  /\ pc = "batch"
  /\ bpc = "submitted"
  /\ IF ret.threw
     THEN /\ idx' = idx + 1
          /\ bpc' = "submit"
          /\ UNCHANGED <<cp, output>>
     ELSE /\ cp' = callCheckPayment(ret.txHash, retryLimit)
          /\ bpc' = "check"
          /\ UNCHANGED <<output, idx>>
  /\ ret' = NoRet
  /\ UNCHANGED <<retryLimit, ledgerTx>>
  /\ UNCHANGED ledgerVars
  /\ UNCHANGED payoutVars

\* After submitPayment: a submission error is recorded as Failed and the loop
\* goes on with the next row without a confirmation poll; otherwise the
\* transaction is handed to checkPayment with the batch's retry limit.
AfterSubmit ==
  /\ pc = "batch"
  /\ bpc = "submitted"
  /\ IF ret.threw
     THEN /\ output' = Append(output, [row |-> idx, kind |-> "Failed"])
          /\ idx' = idx + 1
          /\ bpc' = "submit"
          /\ UNCHANGED cp
     ELSE /\ cp' = callCheckPayment(ret.txHash, retryLimit)
          /\ bpc' = "check"
          /\ UNCHANGED <<output, idx>>
  /\ ret' = NoRet
  /\ UNCHANGED <<retryLimit, ledgerTx>>
  /\ UNCHANGED ledgerVars
  /\ UNCHANGED payoutVars

\* Variant: an error of checkPayment leaves the loop and reaches payout's
\* catch after the record is written.
RecordOutcome_Abort ==
  /\ pc = "batch"
  /\ bpc = "check"
  /\ cp.active
  /\ cp.result # "running"
  /\ output' = Append(output, [row |-> idx, kind |-> outcomeOf(cp.result)])
  /\ IF cp.result = "returned"
     THEN /\ idx' = idx + 1
          /\ bpc' = "submit"
          /\ UNCHANGED <<pc, errorLog>>
     ELSE /\ Catch(cp.result)
          /\ bpc' = "threw"
          /\ UNCHANGED idx
  /\ cp' = NoFrame
  /\ ledgerTx' = NoTx
  /\ UNCHANGED <<retryLimit, confirmed, ret, inputRead, walletMade, connected,
                 outputOpen, txInputs>>
  /\ UNCHANGED ledgerVars

\* After checkPayment returned or threw: its terminal outcome is recorded and
\* the loop goes on with the next row.
RecordOutcome ==
  /\ pc = "batch"
  /\ bpc = "check"
  /\ cp.active
  /\ cp.result # "running"
  /\ output' = Append(output, [row |-> idx, kind |-> outcomeOf(cp.result)])
  /\ idx' = idx + 1
  /\ bpc' = "submit"
  /\ cp' = NoFrame
  /\ ledgerTx' = NoTx
  /\ UNCHANGED <<retryLimit, ret>>
  /\ UNCHANGED ledgerVars
  /\ UNCHANGED payoutVars

\* The loop is past the last row: reliableBatchPayment returns and payout
\* completes.
BatchReturn ==
  /\ pc = "batch"
  /\ bpc = "submit"
  /\ idx > N
  /\ bpc' = "returned"
  /\ pc' = "done"
  /\ UNCHANGED <<retryLimit, confirmed, errorLog, inputRead, walletMade, connected,
                 outputOpen, txInputs, idx, ret, ledgerTx, cp, output>>
  /\ UNCHANGED ledgerVars

Next ==
  \/ Prompt
  \/ ParseCsv
  \/ GenerateWallet
  \/ ConnectToLedger
  \/ StartBatch
  \/ SubmitPayment
  \/ AfterSubmit
  \/ CheckPayment
  \/ RecordOutcome
  \/ BatchReturn

Spec == Init /\ [][Next]_vars

\* ---- checkPayment called on its own ----
\* checkPayment is exported: a caller may pass any numRetries, which need not
\* be the configured retryLimit, and leaves index at its default.

InitCheck ==
  /\ retryLimit \in 0..MaxRetryLimit
  /\ pc = "direct"
  /\ errorLog = <<>>
  /\ confirmed = "unknown"
  /\ inputRead = FALSE
  /\ walletMade = FALSE
  /\ connected = FALSE
  /\ outputOpen = FALSE
  /\ txInputs = <<>>
  /\ idx = 0
  /\ bpc = "idle"
  /\ ret = NoRet
  /\ ledgerTx = NoTx
  /\ cp = NoFrame
  /\ submitCalls = [r \in Rows |-> 0]
  /\ sendCalls = [r \in Rows |-> 0]
  /\ sentDest = [r \in Rows |-> "none"]
  /\ sendResult = [r \in Rows |-> "none"]
  /\ pollCalls = [r \in Rows |-> 0]
  /\ output = <<>>

\* checkPayment(xrpClient, txHash, numRetries) for a submitted transaction
\* whose ledger answers are pend Pending answers, then final.
DirectCall ==
  /\ pc = "direct"
  /\ ~cp.active
  /\ \E n \in 0..MaxNumRetries, p \in 0..MaxPending, f \in TransactionStatus :
       /\ (f = Pending => p = 0)
       /\ ledgerTx' = [pend |-> p, final |-> f]
       /\ cp' = callCheckPayment(Hash, n)
  /\ UNCHANGED <<retryLimit, idx, bpc, ret, output>>
  /\ UNCHANGED ledgerVars
  /\ UNCHANGED payoutVars

\* One poll of the invocation.
DirectPoll ==
  /\ pc = "direct"
  /\ cp.active
  /\ cp.result = "running"
  /\ cp.polls < MaxPolls
  /\ cp' = checkPaymentStep(cp, getPaymentStatus(cp.polls + 1))
  /\ UNCHANGED <<retryLimit, idx, bpc, ret, ledgerTx, output>>
  /\ UNCHANGED ledgerVars
  /\ UNCHANGED payoutVars

\* The invocation returned or threw: the caller goes on.
DirectReturn ==
  /\ pc = "direct"
  /\ cp.active
  /\ cp.result # "running"
  /\ cp' = NoFrame
  /\ ledgerTx' = NoTx
  /\ UNCHANGED <<retryLimit, idx, bpc, ret, output>>
  /\ UNCHANGED ledgerVars
  /\ UNCHANGED payoutVars

NextCheck ==
  \/ DirectCall
  \/ DirectPoll
  \/ DirectReturn

SpecCheck == InitCheck /\ [][NextCheck]_vars

TypeOK ==
  /\ retryLimit \in 0..MaxRetryLimit
  /\ pc \in {"prompt", "parseCsv", "wallet", "connect", "openOutput", "batch",
            "done", "direct"}
  /\ confirmed \in {"unknown", "yes", "no"}
  /\ bpc \in {"idle", "submit", "submitted", "check", "returned"}
  /\ idx \in 0..(MaxRecipients + 1)
  /\ Len(output) <= MaxRecipients
\* ---- claims ----

\* C1: with numRetries = L = retryLimit >= 1 and the ledger answering Pending
\* k < L times and then Succeeded, checkPayment returns normally after
\* exactly k + 1 polls.
C1_ConfirmedAfterKPlusOnePolls ==
  (/\ cp.active
   /\ cp.result # "running"
   /\ cp.top = retryLimit
   /\ cp.top >= 1
   /\ ledgerTx.final = Succeeded
   /\ ledgerTx.pend < cp.top)
  => (cp.result = "returned" /\ cp.polls = ledgerTx.pend + 1)

\* C2: with numRetries = L >= 1 and every poll answering Pending,
\* checkPayment is timed out exactly when L Pending polls were made, and no
\* poll is made beyond that.
C2_TimedOutExactlyAtLimit ==
  (/\ cp.active
   /\ cp.top >= 1
   /\ ledgerTx.final = Pending)
  => (/\ cp.polls <= cp.top
      /\ (cp.result = "timeout") <=> (cp.polls = cp.top))

\* C3: a poll answering Failed or Unknown ends checkPayment with the failed
\* outcome, and it is the last poll: it is the first answer that is not
\* Pending (a first poll answering Failed means one poll in total).
C3_FailedEndsAtOnce ==
  (cp.active /\ cp.last \in {Failed, Unknown})
  => (/\ cp.result = "failed"
      /\ cp.polls = ledgerTx.pend + 1
      /\ pollCalls[idx] = cp.polls)

C3_Witness ==
  /\ cp.active
  /\ cp.last = Unknown
  /\ cp.result = "failed"
  /\ cp.polls = 2

\* C4: once the batch has started, a submission error, a failed confirmation
\* or a pending timeout of one row never ends the run: the run only ends with
\* the loop past the last row, every row having been submitted, and every row
\* before the current one has been submitted.
C4_FailureNeverStopsBatch ==
  outputOpen =>
    /\ pc = "done" => (bpc = "returned" /\ idx = N + 1)
    /\ \A r \in 1..N : r < idx => submitCalls[r] = 1

C4_Witness ==
  /\ pc = "done"
  /\ bpc = "returned"
  /\ N = 3
  /\ sendResult[1] = "fail"
  /\ output[2].kind \in {"Failed", "TimedOut"}
  /\ pollCalls[2] > 0
  /\ submitCalls[3] = 1

\* C5: a batch of N rows writes exactly N outcome records, the k-th record
\* being the one of row k.
C5_OneOutcomePerRowInOrder ==
  /\ Len(output) <= N
  /\ \A k \in 1..Len(output) : output[k].row = k
  /\ (pc = "batch" /\ bpc = "submit") => Len(output) = idx - 1
  /\ (pc = "done" /\ outputOpen) => Len(output) = N

C5_Witness ==
  /\ pc = "done"
  /\ N = 3
  /\ Len(output) = 3
  /\ output[1].kind = "Confirmed"
  /\ output[2].kind = "Failed"
  /\ sendResult[2] = "fail"
  /\ output[3].kind = "TimedOut"

\* C6: a status poll is made for a row only with the hash its submitPayment
\* returned; a row whose send failed gets no hash and is never polled.
C6_PollOnlyAfterHash ==
  /\ cp.active => (cp.txHash = Hash /\ sendResult[idx] = "ok")
  /\ \A r \in Rows :
       /\ pollCalls[r] > 0 => sendResult[r] = "ok"
       /\ sendResult[r] = "fail" => pollCalls[r] = 0
  /\ (bpc = "submitted" /\ sendResult[idx] = "fail")
       => (ret.threw /\ ret.txHash = NoHash)

C6_Witness ==
  /\ pc = "done"
  /\ N >= 2
  /\ sendResult[1] = "fail"
  /\ pollCalls[1] = 0
  /\ pollCalls[2] > 0

\* C7: a call of submitPayment invokes send exactly once, whether send
\* succeeds or fails, makes no status poll and writes no outcome.
C7_OneSendPerSubmit ==
  [][submitCalls' # submitCalls =>
       /\ sendCalls' = [sendCalls EXCEPT ![idx] = @ + 1]
       /\ submitCalls' = [submitCalls EXCEPT ![idx] = @ + 1]
       /\ UNCHANGED <<pollCalls, output, cp, idx, retryLimit>>
       /\ UNCHANGED payoutVars]_vars

C7_Witness ==
  /\ bpc = "submitted"
  /\ sendResult[idx] = "fail"
  /\ submitCalls[idx] = 1
  /\ sendCalls[idx] = 1

\* C8: for a row whose address cannot be encoded, submitPayment fails with an
\* invalid-destination error and send is not invoked with the missing address.
C8_NoSendWithoutAddress ==
  \A r \in 1..N :
    (submitCalls[r] > 0 /\ ~txInputs[r].encodable)
    => (/\ sendCalls[r] = 0
        /\ sentDest[r] # NoAddress
        /\ sendResult[r] = "none")

\* C9: payments are submitted only after connectToLedger succeeded; a failed
\* connection ends the run with the error logged and nothing submitted,
\* polled or written.
C9_ConnectBeforeSubmit ==
  /\ (\E r \in Rows : submitCalls[r] > 0 \/ sendCalls[r] > 0 \/ pollCalls[r] > 0)
       => connected
  /\ pc \in {"openOutput", "batch"} => connected
  /\ (pc = "done" /\ walletMade /\ ~connected) =>
       /\ errorLog = <<ConnectionError>>
       /\ \A r \in Rows : submitCalls[r] = 0 /\ sendCalls[r] = 0 /\ pollCalls[r] = 0
       /\ output = <<>>

C9_Witness ==
  /\ pc = "done"
  /\ walletMade
  /\ ~connected
  /\ N > 0
  /\ errorLog = <<ConnectionError>>

\* C10: with a retry limit of 0 checkPayment makes exactly one poll: it
\* returns on Succeeded, fails on Failed or Unknown and times out on Pending.
C10_ZeroLimitSinglePoll ==
  (retryLimit = 0 /\ cp.active) =>
    /\ cp.top = 0
    /\ cp.polls <= 1
    /\ cp.polls = 1 =>
         /\ cp.last = Succeeded => cp.result = "returned"
         /\ cp.last \in {Failed, Unknown} => cp.result = "failed"
         /\ cp.last = Pending => cp.result = "timeout"
    /\ cp.polls = 0 => cp.result = "running"
    /\ pollCalls[idx] = cp.polls

C10_Witness ==
  /\ retryLimit = 0
  /\ cp.active
  /\ cp.polls = 1
  /\ cp.last = Pending
  /\ cp.result = "timeout"
Ended == cp.active /\ cp.result # "running"

\* C11: the retry-limit error is thrown only after a last answer of Pending,
\* the 'Transaction failed.' error only after a last answer of Failed or
\* Unknown, and the two errors differ.
C11_TimeoutDistinctFromFailed ==
  /\ RetryLimitError # FailedError
  /\ Ended =>
       /\ (thrownError(cp.result) = RetryLimitError) <=> (cp.last = Pending)
       /\ (thrownError(cp.result) = FailedError) <=> (cp.last \in {Failed, Unknown})

C11_Witness ==
  /\ Ended
  /\ cp.top = 2
  /\ cp.polls = 2
  /\ cp.last = Pending
  /\ thrownError(cp.result) = RetryLimitError

\* C13: at every poll of one top-level invocation the limit in force is the
\* numRetries argument of the top-level call and the attempt index is the
\* number of Pending answers seen so far.
C13_LimitAndIndexStable ==
  (cp.active /\ cp.result = "running")
  => (cp.numRetries = cp.top /\ cp.index = cp.polls)

\* C14: an invocation makes at most numRetries + 1 polls, whatever the
\* configured retryLimit and the ledger's answers.
C14_PollsBounded ==
  cp.active => cp.polls <= cp.top + 1

\* C15: when the operator did not confirm, the run is over with the
\* 'XRP payout stopped.' error logged and nothing else done: no input read,
\* no wallet, no connection, no output stream, no payment, no poll.
C15_UnconfirmedStopsBeforeLedger ==
  confirmed = "no" =>
    /\ pc = "done"
    /\ errorLog = <<StoppedError>>
    /\ ~inputRead /\ ~walletMade /\ ~connected /\ ~outputOpen
    /\ txInputs = <<>>
    /\ output = <<>>
    /\ \A r \in Rows : submitCalls[r] = 0 /\ sendCalls[r] = 0 /\ pollCalls[r] = 0

C15_Witness ==
  /\ confirmed = "no"
  /\ pc = "done"
  /\ errorLog = <<StoppedError>>

\* C16: checkPayment returns normally only when its last poll answered
\* Succeeded, that answer being the first one that is not Pending; an
\* invocation whose last answer is Pending, Failed or Unknown ends in an
\* error, also when that poll was made by a nested call.
C16_ReturnsOnlyOnSucceeded ==
  Ended =>
    /\ cp.result = "returned" =>
         /\ cp.last = Succeeded
         /\ ledgerTx.final = Succeeded
         /\ cp.polls = ledgerTx.pend + 1
    /\ cp.last \in {Pending, Failed, Unknown} => thrownError(cp.result) # ""

C16_Witness ==
  /\ Ended
  /\ cp.result = "returned"
  /\ cp.polls = 2
  /\ cp.top = 3

\* The steps of payout that ran, given the error that was logged.
StepsBefore(err) ==
  IF err \in {PromptError, StoppedError}
  THEN ~inputRead /\ ~walletMade /\ ~connected /\ ~outputOpen
  ELSE IF err = CsvError
  THEN inputRead /\ ~walletMade /\ ~connected /\ ~outputOpen
  ELSE IF err = WalletError
  THEN inputRead /\ ~walletMade /\ ~connected /\ ~outputOpen
  ELSE IF err = ConnectionError
  THEN inputRead /\ walletMade /\ ~connected /\ ~outputOpen
  ELSE IF err = NotIterableError
  THEN inputRead /\ walletMade /\ connected /\ ~outputOpen
  ELSE FALSE

====
